---- MODULE Spec2Model ----
(***************************************************************************)
(* Incremental extraction engine of the IdeaGen connectors.                *)
(*                                                                         *)
(*   Spec         Stage 0 (primary fetch) of the GitHub, Reddit and        *)
(*                Product Hunt connectors: dedup, primary batch, candidate *)
(*                gate and the bounded candidate list, over two sessions   *)
(*                that share one state dictionary.                         *)
(*   SpecLimiter  RateLimiter.acquire of base-connector.py.                *)
(*   SpecRetry    the retry decorators around the remote operations.       *)
(*   SpecSession  one whole sync_data session of a connector: reference    *)
(*                data, Stage 0, the secondary fetches of Stage 1, the     *)
(*                derived entities of Stage 2 and the flush to the sink.   *)
(*   SpecPipeline IdeaGenPipelineManager: initialize_connectors,           *)
(*                run_full_sync over the registry and the continuous loop. *)
(*   SpecCursor   BaseConnector.get_data over successive sessions, with    *)
(*                the cursor filter of the record extraction.              *)
(*   SpecTrends   the category and keyword stages of the trends         *)
(*                connector's sync_data and their dedup set.               *)
(*   SpecFlatten  the hand-over of records to storage: _send_table_data of *)
(*                the connectors and _store_records of the pipeline.       *)
(*   SpecCompare  BaseConnector.compare_cursors over cursor strings and    *)
(*                the cursor get_data selects for a batch.                 *)
(*   SpecExtract  one extraction of the enhanced Reddit and Product Hunt   *)
(*                connectors over several query dimensions.                *)
(*                                                                         *)
(* Scores that the code keeps as fractions (0.3, 0.5, 0.7) are held in     *)
(* hundredths so that they stay integers.                                  *)
(***************************************************************************)
EXTENDS Integers, Sequences, FiniteSets, TLC

VARIABLES
    conn,        \* which connector runs the session
    processed,   \* state["processed_repos" | "processed_posts" | "processed_products"]
    cand_key,    \* whether the key "high_value_*" is present in state
    candidates,  \* state["high_value_repos" | "high_value_posts" | "high_value_products"]
    prior_len,   \* length of the candidate list the session was started with
    source,      \* the records the source client yields, in source order
    pos,         \* index of the next record the generator yields
    run,         \* 1: first session, 2: second session over the same state
    batch,       \* sync_data["repositories" | "posts" | "products"]
    pc,          \* position of the session
    stage_error, \* whether Stage 0 of this session logged an error of the source client
    limit,       \* RateLimiter.requests_per_minute
    clock,       \* time.time()
    requests,    \* RateLimiter.requests
    lock,        \* holder of RateLimiter.lock (0: free)
    apc,         \* per caller: position inside acquire()
    anow,        \* per caller: the local variable now
    calls,       \* log of finished acquire() calls
    wrapper,     \* which retry-wrapped operation is exercised
    attempt,     \* attempt number of the inner (tenacity) retry loop
    tries,       \* try number of the outer (backoff) retry loop
    invocations, \* kinds of failure of the invocations of the remote operation so far
    outcome,     \* what the wrapped call delivered to its caller
    failing,     \* identifiers whose secondary fetch raises on every attempt
    remote,      \* what the secondary source holds for each identifier
    reference,   \* sync_data["subreddits" | "categories"]
    secondary,   \* sync_data[t] for the secondary tables t of the connector
    derived,     \* sync_data["organizations" | "makers"]
    sec,         \* which secondary stage of sync_data is running
    cand_idx,         \* index into the candidate list inside the secondary stage
    fetches,     \* log of the secondary fetches performed
    send_idx,    \* index of the next table _send_data_to_fivetran looks at
    sink,        \* tables the sink has received, in order
    result,      \* how sync_data ended
    last_sync,   \* state["last_sync"] (0: as the session found it)
    configs,     \* platforms named in connector_configs
    registry,    \* self.connectors, in insertion order
    status,      \* self.metrics['pipeline_status']
    errors_count,\* self.metrics['errors_count']
    mpc,         \* position of the pipeline manager
    ini,         \* initialize_connectors: index of the platform looked at next
    cur,         \* run_full_sync: index into the registry of the connector being synced
    tbl,         \* _sync_connector: index of the table being extracted (0: get_tables)
    unit,        \* extract_data: index of the query unit whose remote call is next
    remote_calls,\* log of the remote calls of the cycle
    sync_log,    \* log of the _sync_connector calls of the cycle and how they ended
    cycles,      \* cycles started so far
    sleep_for,   \* seconds of the latest sleep of the continuous loop
    faults,      \* failures that have happened so far
    broken,      \* configured platforms whose connector cannot be constructed
    errors_at_start, \* errors_count when the cycle started
    encoding,    \* encoding of the cursors of the connector
    req_cursor,  \* request.cursor of the next get_data call
    used,        \* cursors the sessions so far were given
    feed,        \* observed_at of the records the source held in the last session
    emitted,     \* records the last session emitted
    category_feed,    \* ids get_category_trends yields, in order
    keyword_feed,     \* records get_keyword_trends yields, in order
    processed_trends, \* state["processed_trends"]
    trend_log,        \* what the trend stages did with each record they were given
    tpc,              \* position of the trends session
    tpos,             \* index of the next record of the running trend stage
    store_path,  \* which path hands the records over: connector or pipeline
    records_in,  \* the records the path is given
    handed,      \* the records as they reach the sink
    fpc,         \* position of the hand-over
    ca,          \* first cursor string
    cb,          \* second cursor string
    cc,          \* third cursor string
    compared,    \* results of the compare_cursors calls
    extractor,   \* which connector's extraction runs
    listings,    \* per listing dimension: ids the client returns
    search,      \* per keyword: ids the search returns
    xrecords,    \* the list records of the extraction
    qi,          \* index of the next query dimension
    returned     \* the batch the extraction returned

syncVars    == <<conn, processed, cand_key, candidates, prior_len, source,
                 pos, run, batch, pc, stage_error>>
limiterVars == <<limit, clock, requests, lock, apc, anow, calls>>
retryVars   == <<wrapper, attempt, tries, invocations, outcome>>
sessionVars == <<failing, remote, reference, secondary, derived, sec, cand_idx, fetches,
                 send_idx, sink, result, last_sync>>
pipelineVars == <<configs, registry, status, errors_count, mpc, ini, cur, tbl, unit,
                  remote_calls, sync_log, cycles, sleep_for, faults, broken,
                  errors_at_start>>
cursorVars  == <<encoding, req_cursor, used, feed, emitted>>
trendsVars  == <<category_feed, keyword_feed, processed_trends, trend_log, tpc, tpos>>
flattenVars == <<store_path, records_in, handed, fpc>>
compareVars == <<ca, cb, cc, compared>>
extractVars == <<extractor, listings, search, xrecords, qi, returned>>
finalVars   == <<trendsVars, flattenVars, compareVars, extractVars>>
laterVars   == <<sessionVars, pipelineVars, cursorVars, finalVars>>
vars        == <<syncVars, limiterVars, retryVars, laterVars>>

----------------------------------------------------------------------------
(* Bounds of the model *)

MaxStream == 3   \* records the source yields in one session
NumIds    == 3   \* distinct source entities in the stream
PriorGap  == 2   \* free slots left in a candidate list carried over from earlier sessions
NumCallers == 2  \* coroutines that call RateLimiter.acquire
MaxLimit  == 2   \* largest requests_per_minute a limiter is built with
MaxCalls  == 3   \* calls of acquire that are followed to their end
TickLen   == 20  \* seconds the clock advances in one step
MaxClock  == 120 \* the clock stops here

----------------------------------------------------------------------------
(* Stage 0: connectors *)

Connectors == {"github", "reddit", "producthunt"}

HighValueReposCap    == 50
HighValuePostsCap    == 50
HighValueProductsCap == 100

Cap(c) == CASE c = "github"      -> HighValueReposCap
            [] c = "reddit"      -> HighValuePostsCap
            [] c = "producthunt" -> HighValueProductsCap

\* a source record; only the fields Stage 0 reads
Record(c, i, score, magnitude) ==
    [ id                    |-> i,
      full_name             |-> 1000 + i,
      innovation_potential  |-> 0,
      trend_score           |-> IF c = "github" THEN score ELSE 0,
      stars                 |-> IF c = "github" THEN magnitude ELSE 0,
      idea_generation_score |-> IF c = "github" THEN 0 ELSE score,
      votes_count           |-> IF c = "producthunt" THEN magnitude ELSE 0,
      comments_count        |-> 0 ]

Scores == {10, 80, 95}

Profiles(c) == {<<s, 0>> : s \in Scores}
                 \cup (IF c = "github" THEN {<<10, 500>>}
                       ELSE IF c = "producthunt" THEN {<<10, 50>>}
                       ELSE {<<30, 0>>})

Records(c) == {Record(c, i, p[1], p[2]) : i \in 1..NumIds, p \in Profiles(c)}

SeqsUpTo(S, n) == UNION {[1..k -> S] : k \in 0..n}

\* ids are opaque: a stream names its entities 1, 2, ... in order of first appearance
FirstAppearanceOrder(s) ==
    \A i \in 1..Len(s) : \A k \in 1..(s[i].id - 1) : \E j \in 1..(i - 1) : s[j].id = k

Streams(c) == {s \in SeqsUpTo(Records(c), MaxStream) : FirstAppearanceOrder(s)}

\* what the candidate list holds for a record
CandidateKey(c, rec) == IF c = "github" THEN rec.full_name ELSE rec.id

\* github connector.py:203-205
IsHighValueRepo(rec) ==
    \/ rec.innovation_potential >= 70
    \/ rec.trend_score >= 50
    \/ rec.stars >= 500

\* reddit connector.py:179
IsHighValuePost(rec) == rec.idea_generation_score >= 30

\* producthunt connector.py:205
IsHighValueProduct(rec) ==
    \/ rec.votes_count >= 50
    \/ rec.comments_count >= 20
    \/ rec.idea_generation_score >= 50

CandidateGate(c, rec) ==
    CASE c = "github"      -> IsHighValueRepo(rec)
      [] c = "reddit"      -> IsHighValuePost(rec)
      [] c = "producthunt" -> IsHighValueProduct(rec)

HasRoomOffByOne(c, cands) == Len(cands) <= Cap(c)

\* len(state["high_value_*"]) < cap
HasRoom(c, cands) == Len(cands) < Cap(c)

MarkProcessedForgets(set, i) == set

\* state["processed_*"].add(id)
MarkProcessed(set, i) == set \cup {i}

AddCandidateInFront(cands, key) == <<key>> \o cands

\* state["high_value_*"].append(key)
AddCandidate(cands, key) == Append(cands, key)

NextCandidatesUngated(c, cands, rec) ==
    IF HasRoom(c, cands) THEN AddCandidate(cands, CandidateKey(c, rec)) ELSE cands

\* the candidate list after a new record went through the gate
NextCandidates(c, cands, rec) ==
    IF CandidateGate(c, rec) /\ HasRoom(c, cands)
    THEN AddCandidate(cands, CandidateKey(c, rec))
    ELSE cands

\* a session's state dictionary as left by earlier sessions that saw k
\* gate-passing entities 100+1 .. 100+k (k = 0: state is None, built fresh)
PriorIds(k) == {100 + j : j \in 1..k}
PriorCandidates(c, k) == [j \in 1..k |-> IF c = "github" THEN 1000 + 100 + j ELSE 100 + j]
PriorLens(c) == {0, Cap(c) - PriorGap, Cap(c)}

InitLimiterIdle ==
    /\ limit = 1
    /\ clock = 0
    /\ requests = <<>>
    /\ lock = 0
    /\ apc = <<>>
    /\ anow = <<>>
    /\ calls = <<>>

InitRetryIdle ==
    /\ wrapper = "none"
    /\ attempt = 0
    /\ tries = 0
    /\ invocations = <<>>
    /\ outcome = [kind |-> "none", cause |-> "none"]

InitSync ==
    /\ conn \in Connectors
    /\ prior_len \in PriorLens(conn)
    /\ processed = PriorIds(prior_len)
    /\ candidates = PriorCandidates(conn, prior_len)
    /\ cand_key = (prior_len > 0)
    /\ source \in Streams(conn)
    /\ pos = 1
    /\ run = 1
    /\ batch = <<>>
    /\ pc = "stage0"
    /\ stage_error = FALSE

InitSessionIdle ==
    /\ failing = {}
    /\ remote = <<>>
    /\ reference = <<>>
    /\ secondary = <<>>
    /\ derived = <<>>
    /\ sec = 0
    /\ cand_idx = 0
    /\ fetches = <<>>
    /\ send_idx = 0
    /\ sink = <<>>
    /\ result = "none"
    /\ last_sync = 0

InitPipelineIdle ==
    /\ configs = {}
    /\ registry = <<>>
    /\ status = "initialized"
    /\ errors_count = 0
    /\ mpc = "none"
    /\ ini = 0
    /\ cur = 0
    /\ tbl = 0
    /\ unit = 0
    /\ remote_calls = <<>>
    /\ sync_log = <<>>
    /\ cycles = 0
    /\ sleep_for = 0
    /\ faults = 0
    /\ broken = {}
    /\ errors_at_start = 0

InitCursorIdle ==
    /\ encoding = "timestamp"
    /\ req_cursor = [kind |-> "none", t |-> 0, zone |-> "naive"]
    /\ used = <<>>
    /\ feed = {}
    /\ emitted = <<>>

InitTrendsIdle ==
    /\ category_feed = <<>>
    /\ keyword_feed = <<>>
    /\ processed_trends = {}
    /\ trend_log = <<>>
    /\ tpc = "none"
    /\ tpos = 0

InitFlattenIdle ==
    /\ store_path = "none"
    /\ records_in = <<>>
    /\ handed = <<>>
    /\ fpc = "none"

InitCompareIdle ==
    /\ ca = [kind |-> "none", t |-> 0, zone |-> "naive"]
    /\ cb = [kind |-> "none", t |-> 0, zone |-> "naive"]
    /\ cc = [kind |-> "none", t |-> 0, zone |-> "naive"]
    /\ compared = <<>>

InitExtractIdle ==
    /\ extractor = "none"
    /\ listings = <<>>
    /\ search = <<>>
    /\ xrecords = <<>>
    /\ qi = 0
    /\ returned = <<>>

InitFinalIdle == InitTrendsIdle /\ InitFlattenIdle /\ InitCompareIdle /\ InitExtractIdle

InitLaterIdle == InitSessionIdle /\ InitPipelineIdle /\ InitCursorIdle /\ InitFinalIdle

Init == InitSync /\ InitLimiterIdle /\ InitRetryIdle /\ InitLaterIdle

\* the generator has a record to yield
Yields == /\ pc = "stage0"
          /\ pos <= Len(source)

\* GitHubConnector._sync_trending_repositories, one iteration of the async for
SyncTrendingRepositoriesStep ==
    /\ conn = "github"
    /\ Yields
    /\ LET repo_data == source[pos]
           repo_id   == repo_data.id
       IN IF repo_id \in processed
          THEN UNCHANGED <<batch, processed, cand_key, candidates>>
          ELSE /\ batch' = Append(batch, repo_data)
               /\ processed' = MarkProcessed(processed, repo_id)
               /\ cand_key' = TRUE
               /\ candidates' = NextCandidates(conn, candidates, repo_data)
    /\ pos' = pos + 1
    /\ UNCHANGED <<conn, prior_len, source, run, pc, stage_error, limiterVars, retryVars, laterVars>>

\* RedditConnector._sync_trending_posts, one iteration of the async for
SyncTrendingPostsStep ==
    /\ conn = "reddit"
    /\ Yields
    /\ LET post_data == source[pos]
           post_id   == post_data.id
       IN IF post_id \in processed
          THEN UNCHANGED <<batch, processed, cand_key, candidates>>
          ELSE IF IsHighValuePost(post_data)
               THEN /\ batch' = Append(batch, post_data)
                    /\ processed' = MarkProcessed(processed, post_id)
                    /\ cand_key' = TRUE
                    /\ candidates' = NextCandidates(conn, candidates, post_data)
               ELSE UNCHANGED <<batch, processed, cand_key, candidates>>
    /\ pos' = pos + 1
    /\ UNCHANGED <<conn, prior_len, source, run, pc, stage_error, limiterVars, retryVars, laterVars>>

\* ProductHuntConnector._sync_products, one iteration of the async for
SyncProductsStep ==
    /\ conn = "producthunt"
    /\ Yields
    /\ LET product_data == source[pos]
           product_id   == product_data.id
       IN IF product_id \in processed
          THEN UNCHANGED <<batch, processed, cand_key, candidates>>
          ELSE /\ batch' = Append(batch, product_data)
               /\ processed' = MarkProcessed(processed, product_id)
               /\ cand_key' = TRUE
               /\ candidates' = NextCandidates(conn, candidates, product_data)
    /\ pos' = pos + 1
    /\ UNCHANGED <<conn, prior_len, source, run, pc, stage_error, limiterVars, retryVars, laterVars>>

\* the generator raises instead of yielding more: the except clause of the stage
\* logs the error and the stage ends with what it has
StreamRaises ==
    /\ pc = "stage0"
    /\ pos = Len(source) + 1
    /\ pc' = "done"
    /\ stage_error' = TRUE
    /\ UNCHANGED <<conn, processed, cand_key, candidates, prior_len, source,
                   pos, run, batch, limiterVars, retryVars, laterVars>>

\* the generator is exhausted
StreamEnds ==
    /\ pc = "stage0"
    /\ pos = Len(source) + 1
    /\ pc' = "done"
    /\ UNCHANGED <<conn, processed, cand_key, candidates, prior_len, source,
                   pos, run, batch, stage_error, limiterVars, retryVars, laterVars>>

\* sync_data(state) is called again with the state the first session returned and
\* the source returns the same data: sync_data starts from empty batches
SecondSession ==
    /\ pc = "done"
    /\ run = 1
    /\ run' = 2
    /\ batch' = <<>>
    /\ pos' = 1
    /\ pc' = "stage0"
    /\ stage_error' = FALSE
    /\ UNCHANGED <<conn, processed, cand_key, candidates, prior_len, source,
                   limiterVars, retryVars, laterVars>>

Next ==
    \/ SyncTrendingRepositoriesStep
    \/ SyncTrendingPostsStep
    \/ SyncProductsStep
    \/ StreamRaises
    \/ StreamEnds
    \/ SecondSession

Spec == Init /\ [][Next]_vars

----------------------------------------------------------------------------
(* Properties of Stage 0 *)

Min(a, b) == IF a < b THEN a ELSE b
Take(s, k) == SubSeq(s, 1, Min(k, Len(s)))
Range(s) == {s[i] : i \in DOMAIN s}

\* records of source the first session has consumed so far
Consumed == IF run = 1 THEN pos - 1 ELSE Len(source)

\* source[j] is put in the primary batch when it arrives as a new record
EmittedWhenNew(j) == conn = "reddit" => source[j].idea_generation_score >= 30

\* source[i] was a new record when it arrived in the first session: its id was
\* not in the dedup set the session started with and no earlier record put it there
ArrivedNew(i) ==
    /\ source[i].id \notin PriorIds(prior_len)
    /\ \A j \in 1..(i - 1) : source[j].id = source[i].id => ~EmittedWhenNew(j)

PassingNewIndices(n) ==
    SelectSeq([i \in 1..n |-> i],
              LAMBDA i : ArrivedNew(i) /\ CandidateGate(conn, source[i]))

\* keys of the gate-passing new records among the first n, in arrival order
PassingNewKeys(n) ==
    LET idx == PassingNewIndices(n)
    IN [k \in 1..Len(idx) |-> CandidateKey(conn, source[idx[k]])]

\* C1: a second Stage 0 over the same source data and the dedup set left by the
\* first run appends nothing to the primary batch
C1_SecondRunAppendsNothing == run = 2 => batch = <<>>

C1_Witness ==
    /\ run = 2
    /\ pc = "done"
    /\ processed # PriorIds(prior_len)
    /\ \E i \in 1..Len(source) : ArrivedNew(i) /\ EmittedWhenNew(i)

\* C2: a candidate list never holds more than its cap (50 repositories, 50 posts,
\* 100 products), and no step changes a list that is full
C2_CandidateListBounded ==
    /\ [](Len(candidates) <= Cap(conn))
    /\ [][Len(candidates) = Cap(conn) => candidates' = candidates]_vars

\* the list is full and a gate-passing new record that arrived after that was left out
C2_Witness ==
    /\ run = 1
    /\ Len(candidates) = Cap(conn)
    /\ \E i \in 1..Consumed :
          /\ ArrivedNew(i)
          /\ CandidateGate(conn, source[i])
          /\ CandidateKey(conn, source[i]) \notin Range(candidates)
          /\ source[i] \in Range(batch)

\* the scenario of C3: three new records with scores 10, 80, 95 arrive in that
\* order at a list with two free slots, and Stage 0 has finished
ScenarioC3 ==
    /\ run = 1
    /\ pc = "done"
    /\ prior_len = Cap(conn) - 2
    /\ Len(source) = 3
    /\ \A i \in 1..3 : source[i].stars = 0 /\ source[i].votes_count = 0
    /\ (IF conn = "github" THEN <<source[1].trend_score, source[2].trend_score,
                                   source[3].trend_score>>
        ELSE <<source[1].idea_generation_score, source[2].idea_generation_score,
               source[3].idea_generation_score>>) = <<10, 80, 95>>
    /\ Cardinality({source[i].id : i \in 1..3}) = 3

ScenarioCandidates ==
    PriorCandidates(conn, prior_len)
        \o <<CandidateKey(conn, source[2]), CandidateKey(conn, source[3])>>

\* the candidate list is what the session started with followed by the first
\* gate-passing new records in arrival order, as many as there was room for
FirstPassingWins ==
    candidates = PriorCandidates(conn, prior_len)
                    \o Take(PassingNewKeys(Consumed), Cap(conn) - prior_len)

HandlesFailingNewRecord ==
    /\ Yields
    /\ pos' = pos + 1
    /\ source[pos].id \notin processed
    /\ ~CandidateGate(conn, source[pos])

C27_CandidatesFromThisSession ==
    (run = 2 /\ pc = "done") =>
        \A k \in 1..Len(candidates) :
            \E j \in 1..Len(batch) : candidates[k] = CandidateKey(conn, batch[j])

----------------------------------------------------------------------------
(* RateLimiter (base-connector.py) *)

Window == 60

Callers == 1..NumCallers

\* [req_time for req_time in self.requests if req_time > minute_ago]
RemoveOld(reqs, now) == SelectSeq(reqs, LAMBDA req_time : req_time > now - Window)

WindowFullOffByOne(reqs, lim) == Len(reqs) > lim

\* len(self.requests) >= self.requests_per_minute
WindowFull(reqs, lim) == Len(reqs) >= lim

\* min(self.requests)
Oldest(reqs) == CHOOSE m \in Range(reqs) : \A r \in Range(reqs) : m <= r

\* wait_time = 60 - (now - oldest_request)
WaitTime(reqs, now) == Window - (now - Oldest(reqs))

LockIgnored == TRUE

\* asyncio.Lock: it can be taken when nobody holds it
LockIsFree == lock = 0

\* RateLimiter.__init__, with no caller inside acquire
InitLimiter ==
    /\ limit \in 1..MaxLimit
    /\ clock = 0
    /\ requests = <<>>
    /\ lock = 0
    /\ apc = [c \in Callers |-> "idle"]
    /\ anow = [c \in Callers |-> 0]
    /\ calls = <<>>

InitSyncIdle ==
    /\ conn = "github"
    /\ prior_len = 0
    /\ processed = {}
    /\ candidates = <<>>
    /\ cand_key = FALSE
    /\ source = <<>>
    /\ pos = 1
    /\ run = 1
    /\ batch = <<>>
    /\ pc = "idle"
    /\ stage_error = FALSE

\* a coroutine calls acquire() and reaches `async with self.lock`
CallAcquire(c) ==
    /\ apc[c] = "idle"
    /\ Len(calls) + Cardinality({d \in Callers : apc[d] # "idle"}) < MaxCalls
    /\ apc' = [apc EXCEPT ![c] = "at_lock"]
    /\ UNCHANGED <<limit, clock, requests, lock, anow, calls, syncVars, retryVars, laterVars>>

\* `async with self.lock`: the lock is taken
EnterLock(c) ==
    /\ apc[c] = "at_lock"
    /\ LockIsFree
    /\ lock' = c
    /\ apc' = [apc EXCEPT ![c] = "locked"]
    /\ UNCHANGED <<limit, clock, requests, anow, calls, syncVars, retryVars, laterVars>>

\* lines 320-324: now = time.time(); the requests older than a minute are removed
ReadClockAndRemoveOld(c) ==
    /\ apc[c] = "locked"
    /\ anow' = [anow EXCEPT ![c] = clock]
    /\ requests' = RemoveOld(requests, clock)
    /\ apc' = [apc EXCEPT ![c] = "check"]
    /\ UNCHANGED <<limit, clock, lock, calls, syncVars, retryVars, laterVars>>

\* lines 327-333: the window is full and wait_time > 0; RateLimiter has no attribute
\* logger, so self.logger.warning raises AttributeError before asyncio.sleep is
\* reached; the exception leaves the `async with` block, which releases the lock
RaisesOnFullWindow(c) ==
    /\ apc[c] = "check"
    /\ WindowFull(requests, limit)
    /\ WaitTime(requests, anow[c]) > 0
    /\ calls' = Append(calls, [now |-> anow[c], end |-> clock, outcome |-> "raised",
                               full |-> TRUE, oldest |-> Oldest(requests)])
    /\ lock' = 0
    /\ apc' = [apc EXCEPT ![c] = "idle"]
    /\ UNCHANGED <<limit, clock, requests, anow, syncVars, retryVars, laterVars>>

\* line 337: self.requests.append(now), reached when the window is not full or
\* wait_time <= 0; acquire returns and the lock is released
RecordsRequest(c) ==
    /\ apc[c] = "check"
    /\ WindowFull(requests, limit) => WaitTime(requests, anow[c]) <= 0
    /\ requests' = Append(requests, anow[c])
    /\ calls' = Append(calls, [now |-> anow[c], end |-> clock, outcome |-> "returned",
                               full |-> WindowFull(requests, limit),
                               oldest |-> IF requests = <<>> THEN anow[c]
                                          ELSE Oldest(requests)])
    /\ lock' = 0
    /\ apc' = [apc EXCEPT ![c] = "idle"]
    /\ UNCHANGED <<limit, clock, anow, syncVars, retryVars, laterVars>>

\* time passes; the statements between taking the lock and leaving acquire contain
\* no suspension point that is reached, so they take no time on this clock
Tick ==
    /\ lock = 0
    /\ clock + TickLen <= MaxClock
    /\ clock' = clock + TickLen
    /\ UNCHANGED <<limit, requests, lock, apc, anow, calls, syncVars, retryVars, laterVars>>

NextLimiter ==
    \/ \E c \in Callers : CallAcquire(c)
    \/ \E c \in Callers : EnterLock(c)
    \/ \E c \in Callers : ReadClockAndRemoveOld(c)
    \/ \E c \in Callers : RaisesOnFullWindow(c)
    \/ \E c \in Callers : RecordsRequest(c)
    \/ Tick

InitLimiterSpec == InitLimiter /\ InitSyncIdle /\ InitRetryIdle /\ InitLaterIdle

SpecLimiter == InitLimiterSpec /\ [][NextLimiter]_vars

\* acquire calls that returned, by their position in the log
Returned == {k \in DOMAIN calls : calls[k].outcome = "returned"}

\* C5: a call that finds the window full neither returns nor raises before the
\* oldest admitted call is 60 seconds old
C5_FullWindowBlocks ==
    \A k \in DOMAIN calls : calls[k].full => calls[k].end >= calls[k].oldest + Window

\* C6: the calls that return within any 60 seconds (t - 60, t] are at most limit
C6_AtMostLimitPerWindow ==
    \A k \in Returned :
        Cardinality({j \in Returned : /\ calls[j].end > calls[k].end - Window
                                      /\ calls[j].end <= calls[k].end}) <= limit

\* limit calls returned, a further call inside the window was refused, and a call
\* after the window was admitted
C6_Witness ==
    \E k \in DOMAIN calls :
        /\ calls[k].outcome = "raised"
        /\ Cardinality({j \in Returned : j < k}) >= limit
        /\ \E j \in Returned : j > k

\* a caller is between taking the lock and releasing it
InAcquire(c) == apc[c] \in {"locked", "check"}

\* C7: at most one caller is inside the locked part of acquire, and it is the
\* holder of the lock
C7_AcquireSerialized ==
    \A c \in Callers : InAcquire(c) =>
        /\ lock = c
        /\ \A d \in Callers : InAcquire(d) => d = c

\* one caller is inside acquire while another waits at the lock
C7_Witness ==
    \E c, d \in Callers : c # d /\ apc[c] = "check" /\ apc[d] = "at_lock" /\ lock = c

----------------------------------------------------------------------------
(* Retry decorators around the remote operations *)

\* get_data: BaseConnector.get_data (backoff only); the others carry
\* backoff.on_exception outside and tenacity.retry inside
Wrappers == {"get_data", "github_call", "ph_request", "trends_request"}

Retryable    == {"rate_limit", "network"}
NonRetryable == {"auth", "bad_request", "not_found"}
ErrorKinds   == Retryable \cup NonRetryable

\* max_tries of backoff.on_exception
MaxTries == 3

\* stop_after_attempt of tenacity.retry
StopAfterAttempt == 3

\* whether the operation is wrapped by tenacity.retry
HasTenacity(w) == w # "get_data"

\* tenacity.retry without a retry argument retries on every exception
TenacityRetriesOn(kind) == TRUE

TenacityReraises(kind) == [kind |-> kind, cause |-> "none"]

\* tenacity.retry without reraise=True: when the attempts are used up it raises
\* RetryError from the exception of the last attempt
TenacityExhausted(kind) == [kind |-> "RetryError", cause |-> kind]

\* the exception classes named in backoff.on_exception
BackoffCatches(w, kind) ==
    CASE w = "get_data"       -> TRUE
      [] w = "github_call"    -> kind \in {"rate_limit", "auth", "bad_request", "not_found"}
      [] w = "ph_request"     -> kind = "network"
      [] w = "trends_request" -> kind = "network"

\* what leaves the inner layer when an invocation fails with kind and the inner
\* layer does not retry
InnerError(w, kind) ==
    IF HasTenacity(w) THEN TenacityExhausted(kind) ELSE [kind |-> kind, cause |-> "none"]

\* the inner layer retries the failed invocation itself
InnerRetries(w, kind) ==
    HasTenacity(w) /\ TenacityRetriesOn(kind) /\ attempt + 1 < StopAfterAttempt

\* the outer layer catches what left the inner layer and calls it again
OuterRetries(w, kind) ==
    /\ ~InnerRetries(w, kind)
    /\ BackoffCatches(w, InnerError(w, kind).kind)
    /\ tries + 1 < MaxTries

InitRetry ==
    /\ wrapper \in Wrappers
    /\ attempt = 0
    /\ tries = 0
    /\ invocations = <<>>
    /\ outcome = [kind |-> "none", cause |-> "none"]

InitRetrySpec == InitRetry /\ InitSyncIdle /\ InitLimiterIdle /\ InitLaterIdle

Pending == wrapper \in Wrappers /\ outcome.kind = "none"

\* the remote operation returns: the wrapped call returns its result
CallSucceeds ==
    /\ Pending
    /\ invocations' = Append(invocations, "ok")
    /\ outcome' = [kind |-> "ok", cause |-> "none"]
    /\ UNCHANGED <<wrapper, attempt, tries, syncVars, limiterVars, laterVars>>

\* the remote operation raises and tenacity calls it again
FailsAndTenacityRetries(kind) ==
    /\ Pending
    /\ InnerRetries(wrapper, kind)
    /\ invocations' = Append(invocations, kind)
    /\ attempt' = attempt + 1
    /\ UNCHANGED <<wrapper, tries, outcome, syncVars, limiterVars, laterVars>>

\* the remote operation raises, the error leaves the inner layer and backoff
\* starts the inner layer again
FailsAndBackoffRetries(kind) ==
    /\ Pending
    /\ OuterRetries(wrapper, kind)
    /\ invocations' = Append(invocations, kind)
    /\ tries' = tries + 1
    /\ attempt' = 0
    /\ UNCHANGED <<wrapper, outcome, syncVars, limiterVars, laterVars>>

\* the remote operation raises and the error reaches the caller
FailsAndPropagates(kind) ==
    /\ Pending
    /\ ~InnerRetries(wrapper, kind)
    /\ ~OuterRetries(wrapper, kind)
    /\ invocations' = Append(invocations, kind)
    /\ outcome' = InnerError(wrapper, kind)
    /\ UNCHANGED <<wrapper, attempt, tries, syncVars, limiterVars, laterVars>>

NextRetry ==
    \/ CallSucceeds
    \/ \E kind \in ErrorKinds : FailsAndTenacityRetries(kind)
    \/ \E kind \in ErrorKinds : FailsAndBackoffRetries(kind)
    \/ \E kind \in ErrorKinds : FailsAndPropagates(kind)

SpecRetry == InitRetrySpec /\ [][NextRetry]_vars

Failed == outcome.kind \notin {"none", "ok"}

AllInvocationsIn(S) == \A i \in DOMAIN invocations : invocations[i] \in S

\* C8: an operation that fails with a non-retryable error is invoked once
C8_NonRetryableNotRetried ==
    (invocations # <<>> /\ AllInvocationsIn(NonRetryable)) => Len(invocations) = 1

\* C9: an operation that keeps failing with a retryable error is invoked at most
\* 3 times, and after the third failure the caller has the error
C9_AtMostThreeAttempts ==
    AllInvocationsIn(Retryable) =>
        /\ Len(invocations) <= 3
        /\ Len(invocations) = 3 => Failed

C9_Witness ==
    /\ Failed
    /\ Len(invocations) = 3
    /\ AllInvocationsIn(Retryable)
    /\ wrapper = "github_call"

\* C10: when every attempt failed with a retryable error, the caller gets a
\* DataExtractionError whose cause is the last failure
C10_ExhaustedIsDataExtractionError ==
    (Failed /\ AllInvocationsIn(Retryable)) =>
        /\ outcome.kind = "DataExtractionError"
        /\ outcome.cause = invocations[Len(invocations)]

----------------------------------------------------------------------------
(* sync_data: one whole session of a connector *)

SessionLen == 2   \* records the primary source yields in the session
MaxYield   == 1   \* records one secondary fetch yields
MaxFailing == 1   \* identifiers whose secondary fetch raises on every attempt

CommitsTop      == 20
ContributorsTop == 10

SessionScores == {10, 95}

\* the primary source of the session: distinct entities, below or above the gate
SessionStreams(c) ==
    {[i \in 1..SessionLen |-> Record(c, i, sc[i], 0)] : sc \in [1..SessionLen -> SessionScores]}

SessionKeys(c) == {CandidateKey(c, Record(c, i, 10, 0)) : i \in 1..SessionLen}

\* sync_data calls _sync_subreddits / _sync_categories before the primary fetch
HasReferenceStage(c) == c \in {"reddit", "producthunt"}

\* sync_data calls _sync_organizations / _sync_makers after the secondary fetches
HasDerivedStage(c) == c \in {"github", "producthunt"}

\* the secondary stages sync_data awaits, in call order
SecondaryStages(c) ==
    CASE c = "github"      -> <<"issues", "commits", "contributors">>
      [] c = "reddit"      -> <<"comments">>
      [] c = "producthunt" -> <<"comments">>

\* the identifiers a secondary stage iterates over
StageSlice(c, t, cands) ==
    CASE c = "github" /\ t = "commits"      -> Take(cands, CommitsTop)
      [] c = "github" /\ t = "contributors" -> Take(cands, ContributorsTop)
      [] OTHER                              -> cands

\* the second-tier gate of a secondary stage; signal stands for the stage's
\* condition on the record (scores >= 0.3, feature indicators, expertise >= 0.6,
\* sentiment or extracted terms)
SecondaryGate(c, t, rec) == IF c = "producthunt" THEN TRUE ELSE rec.signal

\* what the client's generator can yield for one identifier
FetchYields(key) ==
    UNION {{[j \in 1..k |-> [id |-> <<key, j>>, of |-> key, signal |-> sig[j]]] :
               sig \in [1..k -> BOOLEAN]} : k \in 0..MaxYield}

\* state["processed_<t>"] of a session that started from a fresh state
ProcessedSecondary(acc) == {acc[j].id : j \in 1..Len(acc)}

\* the body of the async for of a secondary stage, over the records yielded
RECURSIVE CollectSecondary(_, _, _, _)
CollectSecondary(c, t, acc, yielded) ==
    IF yielded = <<>> THEN acc
    ELSE LET rec == Head(yielded)
         IN CollectSecondary(c, t,
                IF rec.id \notin ProcessedSecondary(acc) /\ SecondaryGate(c, t, rec)
                THEN Append(acc, rec) ELSE acc,
                Tail(yielded))

BreakOnFailure(i, raised, n) == IF raised THEN n + 1 ELSE i + 1

\* except Exception: warning; continue -- the for loop goes on with the next identifier
ContinueWithNext(i, raised, n) == i + 1

\* the tables _send_data_to_fivetran looks at, in order
FlushOrder(c) ==
    CASE c = "github"      -> <<"repositories", "issues", "commits", "contributors",
                                "organizations">>
      [] c = "reddit"      -> <<"posts", "comments", "subreddits">>
      [] c = "producthunt" -> <<"products", "comments", "makers", "categories">>

\* sync_data[t]
SyncData(t) ==
    CASE t \in {"repositories", "posts", "products"} -> batch
      [] t \in {"subreddits", "categories"}          -> reference
      [] t \in {"organizations", "makers"}           -> derived
      [] OTHER                                       -> secondary[t]

InitSession ==
    /\ conn \in Connectors
    /\ prior_len = 0
    /\ processed = {}
    /\ candidates = <<>>
    /\ cand_key = FALSE
    /\ source \in SessionStreams(conn)
    /\ pos = 1
    /\ run = 1
    /\ batch = <<>>
    /\ pc = IF HasReferenceStage(conn) THEN "reference" ELSE "stage0"
    /\ stage_error = FALSE
    /\ failing \in {F \in SUBSET SessionKeys(conn) : Cardinality(F) <= MaxFailing}
    /\ remote \in [SessionKeys(conn) -> UNION {FetchYields(k) : k \in SessionKeys(conn)}]
    /\ \A k \in SessionKeys(conn) : remote[k] \in FetchYields(k)
    /\ reference = <<>>
    /\ secondary = [t \in Range(SecondaryStages(conn)) |-> <<>>]
    /\ derived = <<>>
    /\ sec = 0
    /\ cand_idx = 0
    /\ fetches = <<>>
    /\ send_idx = 0
    /\ sink = <<>>
    /\ result = "running"
    /\ last_sync = 0

InitSessionSpec ==
    InitSession /\ InitLimiterIdle /\ InitRetryIdle /\ InitPipelineIdle /\ InitCursorIdle
        /\ InitFinalIdle

\* _sync_subreddits / _sync_categories: failures of the client are caught inside
SyncReferenceData ==
    /\ pc = "reference"
    /\ result = "running"
    /\ \E got \in BOOLEAN : reference' = IF got THEN <<conn>> ELSE <<>>
    /\ pc' = "stage0"
    /\ UNCHANGED <<conn, processed, cand_key, candidates, prior_len, source, pos, run,
                   batch, stage_error, failing, remote, secondary, derived, sec, cand_idx, fetches,
                   send_idx, sink, result, last_sync, limiterVars, retryVars,
                   pipelineVars, cursorVars, finalVars>>

\* a sync_data that started the secondary stages as a task beside the primary one
Stage0StillRunning == pc \in {"stage0", "done"}

\* the primary stage has returned to sync_data
Stage0Returned == pc = "done"

\* sync_data awaits the first secondary stage
BeginSecondary ==
    /\ Stage0Returned
    /\ result = "running"
    /\ pc' = "stage1"
    /\ sec' = 1
    /\ cand_idx' = 1
    /\ UNCHANGED <<conn, processed, cand_key, candidates, prior_len, source, pos, run,
                   batch, stage_error, failing, remote, reference, secondary, derived, fetches,
                   send_idx, sink, result, last_sync, limiterVars, retryVars,
                   pipelineVars, cursorVars, finalVars>>

\* the secondary stage that is running and the identifiers it iterates over
CurrentTable == SecondaryStages(conn)[sec]
CurrentSlice == StageSlice(conn, CurrentTable, candidates)

\* one iteration of `for <identifier> in high_value_*`: the async for over the
\* client's generator, which for a failing identifier raises after what it yielded
FetchSecondary ==
    /\ pc = "stage1"
    /\ result = "running"
    /\ cand_idx <= Len(CurrentSlice)
    /\ LET key    == CurrentSlice[cand_idx]
           raised == key \in failing
           yielded == remote[key]
       IN   /\ secondary' = [secondary EXCEPT ![CurrentTable] =
                                CollectSecondary(conn, CurrentTable, @, yielded)]
            /\ fetches' = Append(fetches, [table |-> CurrentTable, key |-> key,
                                           yielded |-> yielded, raised |-> raised])
            /\ cand_idx' = ContinueWithNext(cand_idx, raised, Len(CurrentSlice))
    /\ UNCHANGED <<conn, processed, cand_key, candidates, prior_len, source, pos, run,
                   batch, pc, stage_error, failing, remote, reference, derived, sec, send_idx,
                   sink, result, last_sync, limiterVars, retryVars,
                   pipelineVars, cursorVars, finalVars>>

\* current_time.isoformat() of the session, later than every last_sync before it
CurrentTime == run

\* the for loop of the secondary stage is over: sync_data awaits the next stage, or
\* after the last stage writes state["last_sync"] and awaits the flush
SecondaryStageEnds ==
    /\ pc = "stage1"
    /\ result = "running"
    /\ cand_idx > Len(CurrentSlice)
    /\ IF sec < Len(SecondaryStages(conn))
       THEN /\ sec' = sec + 1
            /\ cand_idx' = 1
            /\ UNCHANGED <<pc, send_idx, last_sync>>
       ELSE /\ pc' = IF HasDerivedStage(conn) THEN "stage2" ELSE "flush"
            /\ send_idx' = IF HasDerivedStage(conn) THEN send_idx ELSE 1
            /\ last_sync' = IF HasDerivedStage(conn) THEN last_sync ELSE CurrentTime
            /\ UNCHANGED <<sec, cand_idx>>
    /\ UNCHANGED <<conn, processed, cand_key, candidates, prior_len, source, pos, run,
                   batch, stage_error, failing, remote, reference, secondary, derived, fetches,
                   sink, result, limiterVars, retryVars,
                   pipelineVars, cursorVars, finalVars>>

\* ids of the primary batch in batch order, restricted to a set
OwnersInBatchOrder(owners) ==
    LET keep(rec) == rec.id \in owners
        kept == SelectSeq(batch, keep)
    IN [j \in 1..Len(kept) |-> kept[j].id]

\* _sync_organizations / _sync_makers: one derived entity per primary record that
\* names an organization owner / a maker; no remote call
DeriveEntities ==
    /\ pc = "stage2"
    /\ result = "running"
    /\ \E owners \in SUBSET {batch[j].id : j \in 1..Len(batch)} :
           derived' = OwnersInBatchOrder(owners)
    /\ pc' = "flush"
    /\ send_idx' = 1
    /\ last_sync' = CurrentTime
    /\ UNCHANGED <<conn, processed, cand_key, candidates, prior_len, source, pos, run,
                   batch, stage_error, failing, remote, reference, secondary, sec, cand_idx, fetches,
                   sink, result, limiterVars, retryVars,
                   pipelineVars, cursorVars, finalVars>>

Flushing == /\ pc = "flush"
            /\ result = "running"
            /\ send_idx <= Len(FlushOrder(conn))

\* a flush that calls the sink for every table
SentAlways(data) == TRUE

\* `if sync_data[t]:` an empty list is false
IsSent(data) == data # <<>>

\* `if sync_data[t]: await self._send_table_data(...)` returns, or the table is empty
SendTable ==
    /\ Flushing
    /\ LET t == FlushOrder(conn)[send_idx]
       IN sink' = IF IsSent(SyncData(t)) THEN Append(sink, t) ELSE sink
    /\ send_idx' = send_idx + 1
    /\ UNCHANGED <<conn, processed, cand_key, candidates, prior_len, source, pos, run,
                   batch, pc, stage_error, failing, remote, reference, secondary, derived, sec,
                   cand_idx, fetches, result, last_sync, limiterVars, retryVars,
                   pipelineVars, cursorVars, finalVars>>

\* _send_table_data raises: _send_data_to_fivetran logs and re-raises, and so does
\* sync_data
SendTableRaises ==
    /\ Flushing
    /\ SyncData(FlushOrder(conn)[send_idx]) # <<>>
    /\ result' = "raised"
    /\ pc' = "end"
    /\ UNCHANGED <<conn, processed, cand_key, candidates, prior_len, source, pos, run,
                   batch, stage_error, failing, remote, reference, secondary, derived, sec, cand_idx,
                   fetches, send_idx, sink, last_sync, limiterVars, retryVars,
                   pipelineVars, cursorVars, finalVars>>

\* sync_data returns its ConnectorDataResponse
SessionReturns ==
    /\ pc = "flush"
    /\ result = "running"
    /\ send_idx > Len(FlushOrder(conn))
    /\ result' = "returned"
    /\ pc' = "end"
    /\ UNCHANGED <<conn, processed, cand_key, candidates, prior_len, source, pos, run,
                   batch, stage_error, failing, remote, reference, secondary, derived, sec, cand_idx,
                   fetches, send_idx, sink, last_sync, limiterVars, retryVars,
                   pipelineVars, cursorVars, finalVars>>

\* the task running sync_data is cancelled while it waits for a remote call:
\* CancelledError is no Exception, no except clause of the stages catches it
CancelSession ==
    /\ pc \in {"reference", "stage0", "stage1"}
    /\ result = "running"
    /\ result' = "cancelled"
    /\ pc' = "end"
    /\ UNCHANGED <<conn, processed, cand_key, candidates, prior_len, source, pos, run,
                   batch, stage_error, failing, remote, reference, secondary, derived, sec, cand_idx,
                   fetches, send_idx, sink, last_sync, limiterVars, retryVars,
                   pipelineVars, cursorVars, finalVars>>

NextSession ==
    \/ SyncReferenceData
    \/ SyncTrendingRepositoriesStep
    \/ SyncTrendingPostsStep
    \/ SyncProductsStep
    \/ StreamRaises
    \/ StreamEnds
    \/ BeginSecondary
    \/ FetchSecondary
    \/ SecondaryStageEnds
    \/ DeriveEntities
    \/ SendTable
    \/ SendTableRaises
    \/ SessionReturns
    \/ CancelSession

SpecSession == InitSessionSpec /\ [][NextSession]_vars

----------------------------------------------------------------------------
(* Properties of a session *)

Stage1Returned == pc \in {"stage2", "flush"} \/ (pc = "end" /\ result # "cancelled")

\* secondary stage t has fetched identifier key and the fetch ended normally
FetchedNormally(t, key) ==
    \E f \in 1..Len(fetches) :
        /\ fetches[f].table = t
        /\ fetches[f].key = key
        /\ ~fetches[f].raised
        /\ \A j \in 1..Len(fetches[f].yielded) :
               SecondaryGate(conn, t, fetches[f].yielded[j])
                   => fetches[f].yielded[j] \in Range(secondary[t])

\* C11: when the secondary fetch of one identifier raises on every attempt, every
\* secondary stage still fetches every other identifier of its candidate slice,
\* and the records those fetches yield that pass the stage's gate are in the
\* secondary batch
C11_FailingIdentifierIsolated ==
    Stage1Returned =>
        \A k \in 1..Len(SecondaryStages(conn)) :
            LET t     == SecondaryStages(conn)[k]
                slice == StageSlice(conn, t, candidates)
            IN \A j \in 1..Len(slice) :
                   slice[j] \notin failing => FetchedNormally(t, slice[j])

\* the first candidate fails, a later one has its record in the secondary batch
C11_Witness ==
    /\ Stage1Returned
    /\ Len(candidates) >= 2
    /\ candidates[1] \in failing
    /\ \E r \in Range(secondary[SecondaryStages(conn)[1]]) : r.of = candidates[2]

\* the tables of the session that hold records
NonEmptyTables == {t \in Range(FlushOrder(conn)) : SyncData(t) # <<>>}

\* C18: a session that was cancelled or failed part-way has handed the sink none
\* of its tables or all of its non-empty ones
C18_NeverPartiallyFlushed ==
    result \in {"raised", "cancelled"} =>
        \/ sink = <<>>
        \/ Range(sink) = NonEmptyTables

\* how many calls the sink has received for table t
SinkCalls(t) == Cardinality({j \in 1..Len(sink) : sink[j] = t})

\* C24: when the flush is over the sink has received exactly one call for each
\* entity type whose batch is non-empty and none for one whose batch is empty
C24_OneCallPerNonEmptyTable ==
    result = "returned" =>
        \A t \in Range(FlushOrder(conn)) :
            SinkCalls(t) = IF SyncData(t) # <<>> THEN 1 ELSE 0

\* a flush over a session with an empty and two non-empty tables
C24_Witness ==
    /\ result = "returned"
    /\ Len(sink) >= 2
    /\ \E t \in Range(FlushOrder(conn)) : SyncData(t) = <<>>

\* C26: when the session raised before its flush was over, no id is in the dedup
\* set whose record the sink has not received, and last_sync is as it was
C26_FailedSessionLeavesState ==
    result = "raised" =>
        /\ \A i \in processed :
              /\ Head(FlushOrder(conn)) \in Range(sink)
              /\ \E j \in 1..Len(batch) : batch[j].id = i
        /\ last_sync = 0

\* the generator of the primary stage is over and the stage has returned
Stage0Finished == /\ pos = Len(source) + 1
                  /\ pc \notin {"reference", "stage0"}

\* every secondary stage has gone through its whole slice of the candidate list
Stage1Finished ==
    /\ Stage0Finished
    /\ \A k \in 1..Len(SecondaryStages(conn)) :
          LET t     == SecondaryStages(conn)[k]
              slice == StageSlice(conn, t, candidates)
          IN \A j \in 1..Len(slice) :
                 \E f \in 1..Len(fetches) :
                     fetches[f].table = t /\ fetches[f].key = slice[j]

\* the derived stage, where the connector has one, has returned
Stage2Finished == /\ Stage1Finished
                  /\ pc \in {"flush", "end"}

\* C20: no secondary fetch starts before Stage 0 has finished, the derived
\* extraction runs only after Stage 1 has finished, the sink is called only after
\* Stages 0 to 2 have finished, and a finished stage adds nothing afterwards
C20_StagesInOrder ==
    [][ /\ fetches' # fetches => (Stage0Finished /\ derived = <<>> /\ sink = <<>>)
        /\ derived' # derived => (Stage1Finished /\ sink = <<>>)
        /\ pc = "stage2" => Stage1Finished
        /\ sink' # sink => Stage2Finished
        /\ (batch' # batch \/ candidates' # candidates)
              => (fetches = <<>> /\ derived = <<>> /\ sink = <<>>)
        /\ secondary' # secondary => (derived = <<>> /\ sink = <<>>)
      ]_vars

\* the sink has received a secondary table and the derived table of one session
C20_Witness ==
    /\ result = "returned"
    /\ fetches # <<>>
    /\ derived # <<>>
    /\ Len(sink) >= 3

----------------------------------------------------------------------------
(* IdeaGenPipelineManager *)

MaxTables == 2   \* tables of a connector that a cycle extracts
NumUnits  == 2   \* query units (subreddits, keywords) of one table extraction
MaxCycles == 2   \* cycles of the continuous loop that are followed
MaxFaults == 1   \* failures of remote calls, tables and cycles in one behaviour
MaxBroken == 1   \* platforms whose construction fails

SyncIntervalMinutes == 60
BackoffSeconds      == 60

\* the order in which initialize_connectors looks at the platforms
PlatformOrder == <<"reddit", "producthunt", "trends", "twitter">>

Platforms == Range(PlatformOrder)

\* connector.get_tables()
AllTables(p) ==
    CASE p = "reddit"      -> <<"reddit_posts", "reddit_comments", "reddit_subreddits">>
      [] p = "producthunt" -> <<"producthunt_products", "producthunt_makers",
                                "producthunt_comments", "producthunt_topics">>
      [] p = "trends"      -> <<"trending_searches", "interest_over_time", "related_queries",
                                "regional_interest", "trend_analysis">>
      [] p = "twitter"     -> <<"twitter_tweets", "twitter_users", "twitter_trending_topics",
                                "twitter_hashtags", "twitter_conversations">>

Tables(p) == Take(AllTables(p), MaxTables)

\* what a remote call of a client can end with
CallErrors == {"DataExtractionError", "AuthenticationError"}

InitPipeline ==
    /\ configs \in SUBSET Platforms
    /\ broken \in {B \in SUBSET configs : Cardinality(B) <= MaxBroken}
    /\ registry = <<>>
    /\ status = "initialized"
    /\ errors_count = 0
    /\ errors_at_start = 0
    /\ mpc = "init"
    /\ ini = 1
    /\ cur = 0
    /\ tbl = 0
    /\ unit = 0
    /\ remote_calls = <<>>
    /\ sync_log = <<>>
    /\ cycles = 0
    /\ sleep_for = 0
    /\ faults = 0

InitPipelineSpec ==
    InitPipeline /\ InitSyncIdle /\ InitLimiterIdle /\ InitRetryIdle /\ InitSessionIdle
        /\ InitCursorIdle /\ InitFinalIdle

Initializing == /\ mpc = "init"
                /\ ini <= Len(PlatformOrder)

\* a construction raised: the single try block of initialize_connectors is left,
\* no later platform is looked at
LeaveTryBlock == Len(PlatformOrder) + 1

\* `if '<platform>' in connector_configs:` with the construction inside succeeding,
\* or the platform not being configured
ConstructConnector ==
    /\ Initializing
    /\ LET p == PlatformOrder[ini]
       IN /\ p \notin broken
          /\ registry' = IF p \in configs THEN Append(registry, p) ELSE registry
    /\ ini' = ini + 1
    /\ UNCHANGED <<configs, broken, status, errors_count, errors_at_start, mpc, cur, tbl,
                   unit, remote_calls, sync_log, cycles, sleep_for, faults,
                   syncVars, limiterVars, retryVars, sessionVars, cursorVars, finalVars>>

\* the construction raises: except Exception sets the status and re-raises
ConstructionFails ==
    /\ Initializing
    /\ PlatformOrder[ini] \in broken
    /\ status' = "initialization_failed"
    /\ ini' = LeaveTryBlock
    /\ mpc' = "ready"
    /\ UNCHANGED <<configs, broken, registry, errors_count, errors_at_start, cur, tbl,
                   unit, remote_calls, sync_log, cycles, sleep_for, faults,
                   syncVars, limiterVars, retryVars, sessionVars, cursorVars, finalVars>>

\* the end of the try block is reached
InitializeReturns ==
    /\ mpc = "init"
    /\ ini = Len(PlatformOrder) + 1
    /\ status' = "connectors_ready"
    /\ mpc' = "ready"
    /\ UNCHANGED <<configs, broken, registry, errors_count, errors_at_start, ini, cur,
                   tbl, unit, remote_calls, sync_log, cycles, sleep_for, faults,
                   syncVars, limiterVars, retryVars, sessionVars, cursorVars, finalVars>>

\* start_continuous_sync: `while True: await self.run_full_sync()`; run_full_sync
\* sets the status and enters its for loop
BeginFullSync ==
    /\ mpc \in {"ready", "loop"}
    /\ cycles < MaxCycles
    /\ cycles' = cycles + 1
    /\ status' = "syncing"
    /\ errors_at_start' = errors_count
    /\ remote_calls' = <<>>
    /\ sync_log' = <<>>
    /\ cur' = 1
    /\ tbl' = 0
    /\ unit' = 0
    /\ mpc' = "syncing"
    /\ UNCHANGED <<configs, broken, registry, errors_count, ini, sleep_for, faults,
                   syncVars, limiterVars, retryVars, sessionVars, cursorVars, finalVars>>

\* run_full_sync is inside _sync_connector of registry[cur]
Syncing == /\ mpc = "syncing"
           /\ cur <= Len(registry)

MayFail == faults < MaxFaults

\* tables = await connector.get_tables()
GetTables ==
    /\ Syncing
    /\ tbl = 0
    /\ tbl' = 1
    /\ unit' = 1
    /\ UNCHANGED <<configs, broken, registry, status, errors_count, errors_at_start, mpc,
                   ini, cur, remote_calls, sync_log, cycles, sleep_for, faults,
                   syncVars, limiterVars, retryVars, sessionVars, cursorVars, finalVars>>

StopAfterFailedConnector(i, n) == n + 1

\* except Exception: ...; continue -- the for loop of run_full_sync goes on
AfterFailedConnector(i, n) == i + 1

\* get_tables raises: _sync_connector has no try around it, run_full_sync catches,
\* counts the error and continues with the next connector
GetTablesRaises ==
    /\ Syncing
    /\ tbl = 0
    /\ MayFail
    /\ faults' = faults + 1
    /\ errors_count' = errors_count + 1
    /\ sync_log' = Append(sync_log, [platform |-> registry[cur], ended |-> "raised"])
    /\ cur' = AfterFailedConnector(cur, Len(registry))
    /\ UNCHANGED <<configs, broken, registry, status, errors_at_start, mpc, ini, tbl,
                   unit, remote_calls, cycles, sleep_for,
                   syncVars, limiterVars, retryVars, sessionVars, cursorVars, finalVars>>

Extracting == /\ Syncing
              /\ tbl >= 1
              /\ tbl <= Len(Tables(registry[cur]))

\* one iteration of the per-unit loop of an _extract_* method: the remote call of
\* the unit; a failure is caught inside the loop (the client or the except clause
\* of the iteration logs it) and the loop continues with the next unit
RemoteCall ==
    /\ Extracting
    /\ unit <= NumUnits
    /\ \E ended \in {"ok"} \cup (IF MayFail THEN CallErrors ELSE {}) :
         /\ remote_calls' = Append(remote_calls,
                                   [platform |-> registry[cur], table |-> tbl,
                                    unit |-> unit, ended |-> ended])
         /\ faults' = IF ended = "ok" THEN faults ELSE faults + 1
    /\ unit' = unit + 1
    /\ UNCHANGED <<configs, broken, registry, status, errors_count, errors_at_start, mpc,
                   ini, cur, tbl, sync_log, cycles, sleep_for,
                   syncVars, limiterVars, retryVars, sessionVars, cursorVars, finalVars>>

\* what _sync_connector does when a table is over: the next table, or it returns
\* and run_full_sync goes on with the next connector
TableOver ==
    IF tbl < Len(Tables(registry[cur]))
    THEN /\ tbl' = tbl + 1
         /\ unit' = 1
         /\ UNCHANGED <<cur, sync_log>>
    ELSE /\ tbl' = 0
         /\ unit' = 0
         /\ cur' = cur + 1
         /\ sync_log' = Append(sync_log, [platform |-> registry[cur], ended |-> "synced"])

\* extract_data returns; _process_records and _store_records
TableStored ==
    /\ Extracting
    /\ unit > NumUnits
    /\ TableOver
    /\ UNCHANGED <<configs, broken, registry, status, errors_count, errors_at_start, mpc,
                   ini, remote_calls, cycles, sleep_for, faults,
                   syncVars, limiterVars, retryVars, sessionVars, cursorVars, finalVars>>

\* extract_data, _process_records or _store_records raises: the per-table except
\* clause of _sync_connector logs it and continues; no counter is touched
TableRaises ==
    /\ Extracting
    /\ MayFail
    /\ faults' = faults + 1
    /\ remote_calls' = Append(remote_calls,
                              [platform |-> registry[cur], table |-> tbl,
                               unit |-> 0, ended |-> "TableError"])
    /\ TableOver
    /\ UNCHANGED <<configs, broken, registry, status, errors_count, errors_at_start, mpc,
                   ini, cycles, sleep_for,
                   syncVars, limiterVars, retryVars, sessionVars, cursorVars, finalVars>>

OnCycleErrorBreaks == [mpc |-> "returned", sleep_for |-> 0]

\* except Exception: ...; await asyncio.sleep(60)
OnCycleError == [mpc |-> "sleeping", sleep_for |-> BackoffSeconds]

\* await asyncio.sleep(self.config.sync_interval_minutes * 60)
OnCycleDone == [mpc |-> "sleeping", sleep_for |-> SyncIntervalMinutes * 60]

\* the for loop is over: metrics, status, analytics; run_full_sync returns and the
\* loop sleeps the interval
FullSyncReturns ==
    /\ mpc = "syncing"
    /\ cur = Len(registry) + 1
    /\ status' = "sync_complete"
    /\ mpc' = OnCycleDone.mpc
    /\ sleep_for' = OnCycleDone.sleep_for
    /\ UNCHANGED <<configs, broken, registry, errors_count, errors_at_start, ini, cur,
                   tbl, unit, remote_calls, sync_log, cycles, faults,
                   syncVars, limiterVars, retryVars, sessionVars, cursorVars, finalVars>>

\* an exception escapes the body of run_full_sync: its outer except sets the status
\* and re-raises, the loop catches it and sleeps the backoff
FullSyncRaises ==
    /\ mpc = "syncing"
    /\ MayFail
    /\ faults' = faults + 1
    /\ status' = "sync_failed"
    /\ mpc' = OnCycleError.mpc
    /\ sleep_for' = OnCycleError.sleep_for
    /\ UNCHANGED <<configs, broken, registry, errors_count, errors_at_start, ini, cur,
                   tbl, unit, remote_calls, sync_log, cycles,
                   syncVars, limiterVars, retryVars, sessionVars, cursorVars, finalVars>>

\* asyncio.sleep returns: back to the head of `while True`
SleepEnds ==
    /\ mpc = "sleeping"
    /\ mpc' = "loop"
    /\ UNCHANGED <<configs, broken, registry, status, errors_count, errors_at_start, ini,
                   cur, tbl, unit, remote_calls, sync_log, cycles, sleep_for, faults,
                   syncVars, limiterVars, retryVars, sessionVars, cursorVars, finalVars>>

\* the task is cancelled while it sleeps between two cycles: CancelledError is no
\* Exception, neither except clause of the loop catches it
CancelBetweenCycles ==
    /\ mpc = "sleeping"
    /\ mpc' = "cancelled"
    /\ UNCHANGED <<configs, broken, registry, status, errors_count, errors_at_start, ini,
                   cur, tbl, unit, remote_calls, sync_log, cycles, sleep_for, faults,
                   syncVars, limiterVars, retryVars, sessionVars, cursorVars, finalVars>>

\* the task is cancelled while run_full_sync waits for a remote call
CancelMidCycle ==
    /\ Extracting
    /\ mpc' = "cancelled"
    /\ UNCHANGED <<configs, broken, registry, status, errors_count, errors_at_start, ini,
                   cur, tbl, unit, remote_calls, sync_log, cycles, sleep_for, faults,
                   syncVars, limiterVars, retryVars, sessionVars, cursorVars, finalVars>>

\* except KeyboardInterrupt: ...; break
Interrupt ==
    /\ mpc = "sleeping"
    /\ mpc' = "interrupted"
    /\ UNCHANGED <<configs, broken, registry, status, errors_count, errors_at_start, ini,
                   cur, tbl, unit, remote_calls, sync_log, cycles, sleep_for, faults,
                   syncVars, limiterVars, retryVars, sessionVars, cursorVars, finalVars>>

NextPipeline ==
    \/ ConstructConnector
    \/ ConstructionFails
    \/ InitializeReturns
    \/ BeginFullSync
    \/ GetTables
    \/ GetTablesRaises
    \/ RemoteCall
    \/ TableStored
    \/ TableRaises
    \/ FullSyncReturns
    \/ FullSyncRaises
    \/ SleepEnds
    \/ CancelBetweenCycles
    \/ CancelMidCycle
    \/ Interrupt

SpecPipeline == InitPipelineSpec /\ [][NextPipeline]_vars

----------------------------------------------------------------------------
(* Properties of the pipeline manager *)

\* the remote calls of the cycle, without the entries of failed tables
IsRemoteCall(i) == remote_calls[i].unit >= 1

Raised == {i \in 1..Len(sync_log) : sync_log[i].ended = "raised"}

\* the cycle saw exactly one failure: a remote call of a table after the primary
\* one ended with DataExtractionError
OneSecondaryFailure ==
    /\ Raised = {}
    /\ \E i \in 1..Len(remote_calls) :
         /\ remote_calls[i].ended = "DataExtractionError"
         /\ remote_calls[i].table >= 2
         /\ \A j \in 1..Len(remote_calls) : j # i => remote_calls[j].ended = "ok"

\* C12: when exactly one secondary fetch of a session throws DataExtractionError,
\* the session completes, the primary table's calls are all made and succeed, and
\* errors_count is exactly one higher than before
C12_SecondaryFailureCounted ==
    (status = "sync_complete" /\ OneSecondaryFailure) =>
        /\ Len(sync_log) = Len(registry)
        /\ errors_count = errors_at_start + 1

\* C13: in run_full_sync a connector whose sync raises is counted exactly once in
\* errors_count, and every connector of the registry, also those after it, is
\* synced in the same cycle
C13_ConnectorFailureIsolated ==
    /\ mpc = "syncing" => errors_count = errors_at_start + Cardinality(Raised)
    /\ status = "sync_complete" =>
         /\ errors_count = errors_at_start + Cardinality(Raised)
         /\ Len(sync_log) = Len(registry)
         /\ \A i \in 1..Len(registry) : sync_log[i].platform = registry[i]

\* the first connector's sync raised, the next one was synced in the same cycle
C13_Witness ==
    /\ status = "sync_complete"
    /\ Len(sync_log) >= 2
    /\ sync_log[1].ended = "raised"
    /\ sync_log[2].ended = "synced"
    /\ errors_count = errors_at_start + 1

\* C14: after initialize, every configured platform whose construction succeeds
\* is in the registry, wherever it stands relative to a platform whose
\* construction failed
C14_BestEffortInitialize ==
    mpc # "init" => \A p \in configs \ broken : p \in Range(registry)

LoopRuns == {"ready", "loop", "syncing", "sleeping"}
LoopCancelled == {"cancelled", "interrupted"}

\* C17: the continuous loop sleeps the 60 second backoff after a cycle that raised
\* and the configured interval after one that returned, starts another cycle after
\* either sleep, and ends only by a cancellation, after which no cycle starts
C17_LoopEndsOnlyWhenCancelled ==
    [][ /\ mpc \in LoopRuns => mpc' \in LoopRuns \cup LoopCancelled
        /\ (mpc = "syncing" /\ status' = "sync_failed")
              => (mpc' = "sleeping" /\ sleep_for' = BackoffSeconds)
        /\ (mpc = "syncing" /\ status' = "sync_complete")
              => (mpc' = "sleeping" /\ sleep_for' = SyncIntervalMinutes * 60)
        /\ (mpc = "sleeping" /\ mpc' \notin {"sleeping"} \cup LoopCancelled)
              => mpc' = "loop"
        /\ (mpc = "loop" /\ mpc' # "loop")
              => (mpc' = "syncing" /\ cycles' = cycles + 1)
        /\ mpc \in LoopCancelled => (mpc' = mpc /\ cycles' = cycles)
      ]_vars

\* a cycle raised, the loop slept the backoff and is inside the next cycle
C17_Witness ==
    /\ mpc = "syncing"
    /\ cycles = 2
    /\ sleep_for = BackoffSeconds

\* C19: after a remote call of a connector failed with AuthenticationError, that
\* connector makes no further remote call in the session
C19_AuthFailureStopsConnector ==
    \A i, j \in 1..Len(remote_calls) :
        (i < j /\ IsRemoteCall(i) /\ IsRemoteCall(j)
               /\ remote_calls[i].ended = "AuthenticationError")
            => remote_calls[j].platform # remote_calls[i].platform

\* C28: pipeline_status is 'syncing' only while a run_full_sync call is in
\* progress; once a call has returned, raised or been cancelled the status is
\* 'sync_complete' or 'sync_failed'
C28_SyncingOnlyDuringSync ==
    /\ status = "syncing" => mpc = "syncing"
    /\ (cycles > 0 /\ mpc # "syncing") => status \in {"sync_complete", "sync_failed"}

----------------------------------------------------------------------------
(* BaseConnector.get_data over successive sessions *)

FirstTime   == 8   \* observed_at of the oldest record of the source
NumTimes    == 4   \* distinct observed_at values
BatchSize   == 2   \* config.batch_size
MaxSessions == 3   \* sessions that are followed

Times == FirstTime..(FirstTime + NumTimes - 1)

Encodings == {"timestamp", "ordinal"}

\* A cursor string is held as its kind, the number it shows (the local time of a
\* timestamp, the ordinal of an opaque cursor) and the zone suffix it ends with.

\* zone suffixes of a timestamp string; "naive": none
Zones == {"naive", "Z", "+00:00", "+02:00"}

\* a response that was given no cursor
NoCursor == [kind |-> "none", t |-> 0, zone |-> "naive"]

\* record.timestamp.isoformat() of the aware UTC datetime normalize_timestamp makes
IsoFormat(t) == [kind |-> "iso", t |-> t, zone |-> "+00:00"]

\* a cursor string that is no ISO-8601 timestamp: the ordinal written in decimal
Opaque(t) == [kind |-> "opaque", t |-> t, zone |-> "naive"]

\* get_cursor(record); the trends connector returns the record's own date field
GetCursor(enc, t) ==
    CASE enc = "timestamp" -> IsoFormat(t)
      [] enc = "ordinal"   -> Opaque(t)
      [] OTHER             -> t

\* whether datetime.fromisoformat(cursor.replace('Z', '+00:00')) returns
ParsesAsTimestamp(c) == c.kind = "iso"

\* whether the parsed datetime has a tzinfo
IsAware(c) == c.zone # "naive"

\* hours the zone is ahead of UTC
ZoneOffset(zone) == IF zone = "+02:00" THEN 2 ELSE 0

\* the instant a parsed datetime stands for (a naive one read as UTC)
Instant(c) == c.t - ZoneOffset(c.zone)

\* the decimal digits of a number below 100
Digits(n) == IF n < 10 THEN <<n>> ELSE <<n \div 10, n % 10>>

\* the character codes of the zone suffix as written in the string
ZoneChars(zone) ==
    CASE zone = "Z"      -> <<90>>
      [] zone = "+00:00" -> <<43, 48>>
      [] zone = "+02:00" -> <<43, 50>>
      [] OTHER           -> <<>>

\* the character codes of the cursor string: an opaque ordinal has as many digits
\* as it needs; a timestamp starts with the "2" of its year, shows the time in a
\* fixed width (the characters all timestamps share are left out) and ends with
\* its zone suffix
Chars(c) ==
    IF c.kind = "opaque"
    THEN [j \in 1..Len(Digits(c.t)) |-> 48 + Digits(c.t)[j]]
    ELSE <<50, 48 + (c.t \div 10), 48 + (c.t % 10)>> \o ZoneChars(c.zone)

\* Python's < on strings
StringLess(a, b) ==
    \E k \in 1..(Min(Len(a), Len(b)) + 1) :
        /\ \A j \in 1..(k - 1) : a[j] = b[j]
        /\ \/ (k = Len(a) + 1 /\ k <= Len(b))
           \/ (k <= Len(a) /\ k <= Len(b) /\ a[k] < b[k])

\* BaseConnector.compare_cursors: as datetimes when both parse and Python can
\* order them (dt1 > dt2 raises TypeError for a naive and an aware datetime, which
\* the bare except catches), else as strings
CompareCursors(c1, c2) ==
    IF ParsesAsTimestamp(c1) /\ ParsesAsTimestamp(c2) /\ IsAware(c1) = IsAware(c2)
    THEN (IF Instant(c1) > Instant(c2) THEN 1
          ELSE IF Instant(c1) < Instant(c2) THEN -1 ELSE 0)
    ELSE (IF StringLess(Chars(c2), Chars(c1)) THEN 1
          ELSE IF StringLess(Chars(c1), Chars(c2)) THEN -1 ELSE 0)

\* `if min_timestamp and created_at <= min_timestamp: continue`, where
\* min_timestamp stays None when the cursor is absent or does not parse
PassesCursorFilter(c, t) ==
    IF c # NoCursor /\ ParsesAsTimestamp(c) THEN t > c.t ELSE TRUE

\* records.sort(key=timestamp, reverse=True)
RECURSIVE SortDescending(_)
SortDescending(S) ==
    IF S = {} THEN <<>>
    ELSE LET m == CHOOSE x \in S : \A y \in S : y <= x
         IN <<m>> \o SortDescending(S \ {m})

\* _extract_posts / _extract_tweets: filter, sort, truncate to batch_size
ExtractData(c, held) ==
    Take(SortDescending({t \in held : PassesCursorFilter(c, t)}), BatchSize)

\* the loop of get_data over the records: the response starts without a cursor
\* and takes the largest get_cursor(record) under compare_cursors
RECURSIVE ResponseCursorFrom(_, _, _)
ResponseCursorFrom(enc, sofar, records) ==
    IF records = <<>> THEN sofar
    ELSE LET rc == GetCursor(enc, Head(records))
         IN ResponseCursorFrom(enc,
                IF sofar = NoCursor \/ CompareCursors(rc, sofar) > 0 THEN rc ELSE sofar,
                Tail(records))

ResponseCursor(enc, records) == ResponseCursorFrom(enc, NoCursor, records)

InitCursor ==
    /\ encoding \in Encodings
    /\ req_cursor \in {NoCursor} \cup {GetCursor(encoding, t) : t \in Times}
    /\ used = <<>>
    /\ feed = {}
    /\ emitted = <<>>

InitCursorSpec ==
    InitCursor /\ InitSyncIdle /\ InitLimiterIdle /\ InitRetryIdle /\ InitSessionIdle
        /\ InitPipelineIdle /\ InitFinalIdle

\* one successful get_data(request) call; the next session is given the cursor
\* of its response
GetData ==
    /\ Len(used) < MaxSessions
    /\ \E held \in SUBSET Times :
         /\ feed' = held
         /\ emitted' = ExtractData(req_cursor, held)
         /\ req_cursor' = ResponseCursor(encoding, ExtractData(req_cursor, held))
    /\ used' = Append(used, req_cursor)
    /\ UNCHANGED <<encoding, syncVars, limiterVars, retryVars, sessionVars, pipelineVars, finalVars>>

NextCursor == GetData

SpecCursor == InitCursorSpec /\ [][NextCursor]_vars

----------------------------------------------------------------------------
(* Properties of the cursor *)

\* c2 is not behind c1 in the order compare_cursors defines, an absent cursor
\* being behind every cursor
NotBehind(c2, c1) ==
    \/ c1 = NoCursor
    \/ (c2 # NoCursor /\ CompareCursors(c2, c1) >= 0)

\* C15: over successive successful sessions, each given the cursor the previous
\* one produced, the cursor a session uses is never behind the cursor the
\* session before it used, also after a session that returned no record
C15_CursorNeverGoesBack ==
    /\ \A n \in 1..(Len(used) - 1) : NotBehind(used[n + 1], used[n])
    /\ used # <<>> => NotBehind(req_cursor, used[Len(used)])

\* C25: a record that is newer than the cursor of a call and was left out of its
\* batch still passes the filter of the cursor the call returned, so that a later
\* call returns it: truncation to batch_size loses no record
C25_TruncationSkipsNothing ==
    used # <<>> =>
        LET c == used[Len(used)]
        IN \A t \in feed :
               (PassesCursorFilter(c, t) /\ t \notin Range(emitted))
                   => PassesCursorFilter(req_cursor, t)

\* C16: a session run with cursor c emits no record whose observed_at is at or
\* before c, in either encoding of c
C16_NothingAtOrBeforeCursor ==
    used # <<>> =>
        LET c == used[Len(used)]
        IN c # NoCursor => \A j \in 1..Len(emitted) : emitted[j] > c.t

----------------------------------------------------------------------------
(* TrendsConnector.sync_data: the two stages that fill category_trends and  *)
(* trends                                                                    *)

NumTrendIds == 2   \* distinct ids "<keyword>_<date>_<geo>" the client can yield
TrendLen    == 2   \* records one trend stage is given

TrendIds == 1..NumTrendIds

\* trend_data of get_keyword_trends: idea_potential in hundredths
TrendRecords == [id : TrendIds, idea_potential : {10, 50}]

\* state is None: the session builds its state with empty sets
InitTrends ==
    /\ category_feed \in SeqsUpTo(TrendIds, TrendLen)
    /\ keyword_feed \in SeqsUpTo(TrendRecords, TrendLen)
    /\ processed_trends = {}
    /\ trend_log = <<>>
    /\ tpc = "category"
    /\ tpos = 1

InitTrendsSpec ==
    InitTrends /\ InitSyncIdle /\ InitLimiterIdle /\ InitRetryIdle /\ InitSessionIdle
        /\ InitPipelineIdle /\ InitCursorIdle /\ InitFlattenIdle /\ InitCompareIdle
        /\ InitExtractIdle

\* _sync_category_trends, one iteration of the async for: get_category_trends
\* yields the records of get_keyword_trends for the keywords of the category
SyncCategoryTrendsStep ==
    /\ tpc = "category"
    /\ tpos <= Len(category_feed)
    /\ LET trend_id == category_feed[tpos]
       IN IF trend_id \notin processed_trends
          THEN /\ trend_log' = Append(trend_log, [table |-> "category_trends",
                                                  id |-> trend_id, did |-> "appended"])
               /\ processed_trends' = processed_trends \cup {trend_id}
          ELSE /\ trend_log' = Append(trend_log, [table |-> "category_trends",
                                                  id |-> trend_id, did |-> "discarded"])
               /\ UNCHANGED processed_trends
    /\ tpos' = tpos + 1
    /\ UNCHANGED <<category_feed, keyword_feed, tpc, syncVars, limiterVars, retryVars,
                   sessionVars, pipelineVars, cursorVars, flattenVars, compareVars,
                   extractVars>>

\* the categories are over: sync_data awaits _sync_keyword_trends (the stage of the
\* trending topics in between has a dedup set of its own)
CategoryTrendsEnd ==
    /\ tpc = "category"
    /\ tpos > Len(category_feed)
    /\ tpc' = "keyword"
    /\ tpos' = 1
    /\ UNCHANGED <<category_feed, keyword_feed, processed_trends, trend_log, syncVars,
                   limiterVars, retryVars, sessionVars, pipelineVars, cursorVars,
                   flattenVars, compareVars, extractVars>>

\* _sync_keyword_trends, one iteration of the async for
SyncKeywordTrendsStep ==
    /\ tpc = "keyword"
    /\ tpos <= Len(keyword_feed)
    /\ LET trend_data == keyword_feed[tpos]
           trend_id   == trend_data.id
       IN IF trend_id \in processed_trends
          THEN /\ trend_log' = Append(trend_log, [table |-> "trends", id |-> trend_id,
                                                  did |-> "discarded"])
               /\ UNCHANGED processed_trends
          ELSE IF trend_data.idea_potential >= 30
               THEN /\ trend_log' = Append(trend_log, [table |-> "trends", id |-> trend_id,
                                                       did |-> "appended"])
                    /\ processed_trends' = processed_trends \cup {trend_id}
               ELSE /\ trend_log' = Append(trend_log, [table |-> "trends", id |-> trend_id,
                                                       did |-> "gated"])
                    /\ UNCHANGED processed_trends
    /\ tpos' = tpos + 1
    /\ UNCHANGED <<category_feed, keyword_feed, tpc, syncVars, limiterVars, retryVars,
                   sessionVars, pipelineVars, cursorVars, flattenVars, compareVars,
                   extractVars>>

KeywordTrendsEnd ==
    /\ tpc = "keyword"
    /\ tpos > Len(keyword_feed)
    /\ tpc' = "done"
    /\ UNCHANGED <<category_feed, keyword_feed, processed_trends, trend_log, tpos,
                   syncVars, limiterVars, retryVars, sessionVars, pipelineVars,
                   cursorVars, flattenVars, compareVars, extractVars>>

NextTrends ==
    \/ SyncCategoryTrendsStep
    \/ CategoryTrendsEnd
    \/ SyncKeywordTrendsStep
    \/ KeywordTrendsEnd

SpecTrends == InitTrendsSpec /\ [][NextTrends]_vars

----------------------------------------------------------------------------
(* The two paths by which records are handed over for storage:              *)
(* _send_table_data of the connectors and _store_records of the pipeline    *)

MaxRecords == 2   \* records of one table

\* kinds of value a field of a source record can hold
FieldValues == {"int", "str", "list", "dict"}

\* the data of a source record
SourceRecords == [id : {"str"}, topics : FieldValues, owner : FieldValues]

StorePaths == {"connector", "pipeline"}

\* isinstance(value, (list, dict))
IsNested(value) == value \in {"list", "dict"}

\* json.dumps(value): a str holding the serialization
JsonDumps(value) ==
    CASE value = "list" -> "str_of_list"
      [] value = "dict" -> "str_of_dict"
      [] value = "int"  -> "str_of_int"
      [] OTHER          -> "str_of_str"

\* the inner loop of _send_table_data over record.items()
FlattenRecord(record) ==
    [key \in DOMAIN record |->
        IF IsNested(record[key]) THEN JsonDumps(record[key]) ELSE record[key]]

\* _process_records: the platform's processing writes scalar fields into
\* record.data and the two processing fields are added; no field is removed or
\* converted
ProcessRecord(record) ==
    [key \in DOMAIN record \cup {"processed_at", "processing_pipeline"} |->
        IF key \in DOMAIN record THEN record[key] ELSE "str"]

InitFlatten ==
    /\ store_path \in StorePaths
    /\ records_in \in SeqsUpTo(SourceRecords, MaxRecords)
    /\ handed = <<>>
    /\ fpc = "ready"

InitFlattenSpec ==
    InitFlatten /\ InitSyncIdle /\ InitLimiterIdle /\ InitRetryIdle /\ InitSessionIdle
        /\ InitPipelineIdle /\ InitCursorIdle /\ InitTrendsIdle /\ InitCompareIdle
        /\ InitExtractIdle

\* _send_table_data(table_name, data): fivetran_data is what goes to the sink
SendTableData ==
    /\ fpc = "ready"
    /\ store_path = "connector"
    /\ handed' = [j \in 1..Len(records_in) |-> FlattenRecord(records_in[j])]
    /\ fpc' = "sent"
    /\ UNCHANGED <<store_path, records_in, syncVars, limiterVars, retryVars, sessionVars,
                   pipelineVars, cursorVars, trendsVars, compareVars, extractVars>>

\* _sync_connector: processed_records = _process_records(...), then
\* _store_records(table.name, processed_records)
StoreRecords ==
    /\ fpc = "ready"
    /\ store_path = "pipeline"
    /\ handed' = [j \in 1..Len(records_in) |-> ProcessRecord(records_in[j])]
    /\ fpc' = "sent"
    /\ UNCHANGED <<store_path, records_in, syncVars, limiterVars, retryVars, sessionVars,
                   pipelineVars, cursorVars, trendsVars, compareVars, extractVars>>

NextFlatten == SendTableData \/ StoreRecords

SpecFlatten == InitFlattenSpec /\ [][NextFlatten]_vars

\* C22: on either path, no record reaches the sink with a field that still holds
\* a native list or map
C22_FlattenedBeforeSink ==
    fpc = "sent" =>
        \A j \in 1..Len(handed) :
            \A key \in DOMAIN handed[j] : ~IsNested(handed[j][key])

----------------------------------------------------------------------------
(* BaseConnector.compare_cursors over arbitrary cursor strings, and the     *)
(* cursor the loop of get_data selects for a batch                          *)

\* the cursor strings compared: timestamps of every zone suffix and opaque ordinals
CursorStrings ==
    [kind : {"iso"}, t : Times, zone : Zones] \cup {Opaque(t) : t \in Times}

\* the orders in which a batch can hold three records
Orders(a, b, c) ==
    {<<a, b, c>>, <<a, c, b>>, <<b, a, c>>, <<b, c, a>>, <<c, a, b>>, <<c, b, a>>}

InitCompare ==
    /\ ca \in CursorStrings
    /\ cb \in CursorStrings
    /\ cc \in CursorStrings
    /\ compared = <<>>

InitCompareSpec ==
    InitCompare /\ InitSyncIdle /\ InitLimiterIdle /\ InitRetryIdle /\ InitSessionIdle
        /\ InitPipelineIdle /\ InitCursorIdle /\ InitTrendsIdle /\ InitFlattenIdle
        /\ InitExtractIdle

\* compare_cursors is called on the pairs, and get_data runs its loop over a
\* batch whose records carry the three cursors, once per order of the batch
CompareAndSelect ==
    /\ compared = <<>>
    /\ compared' = [ab |-> CompareCursors(ca, cb),
                    ba |-> CompareCursors(cb, ca),
                    bc |-> CompareCursors(cb, cc),
                    ac |-> CompareCursors(ca, cc),
                    selected |-> {ResponseCursor("date", o) : o \in Orders(ca, cb, cc)}]
    /\ UNCHANGED <<ca, cb, cc, syncVars, limiterVars, retryVars, sessionVars,
                   pipelineVars, cursorVars, trendsVars, flattenVars, extractVars>>

NextCompare == CompareAndSelect

SpecCompare == InitCompareSpec /\ [][NextCompare]_vars

\* the order of two instants, as compare_cursors reports an order
ByTime(c1, c2) ==
    IF Instant(c1) > Instant(c2) THEN 1 ELSE IF Instant(c1) < Instant(c2) THEN -1 ELSE 0

\* the lexicographic order of two strings
ByString(c1, c2) ==
    IF StringLess(Chars(c2), Chars(c1)) THEN 1
    ELSE IF StringLess(Chars(c1), Chars(c2)) THEN -1 ELSE 0

\* C23: compare_cursors(a, b) is the order in time whenever both strings parse as
\* timestamps, and the lexicographic order of the strings otherwise
C23_TimeOrderWhenBothParse ==
    compared # <<>> =>
        compared.ab = IF ParsesAsTimestamp(ca) /\ ParsesAsTimestamp(cb)
                      THEN ByTime(ca, cb)
                      ELSE ByString(ca, cb)

\* two cursors that are one string or two spellings of one instant
SameCursor(c1, c2) ==
    \/ c1 = c2
    \/ /\ ParsesAsTimestamp(c1) /\ ParsesAsTimestamp(c2)
       /\ IsAware(c1) /\ IsAware(c2)
       /\ Instant(c1) = Instant(c2)

\* C30: compare_cursors is a consistent order over any mix of cursor strings:
\* compare(a, b) = -compare(b, a), a <= b and b <= c imply a <= c, and the cursor
\* get_data selects for a batch is the same for every order of its records
C30_ConsistentOrdering ==
    compared # <<>> =>
        /\ compared.ab = -compared.ba
        /\ (compared.ab <= 0 /\ compared.bc <= 0) => compared.ac <= 0
        /\ \A x, y \in compared.selected : SameCursor(x, y)

----------------------------------------------------------------------------
(* EnhancedRedditConnector._extract_posts and                               *)
(* EnhancedProductHuntConnector._extract_products: one extraction over      *)
(* several query dimensions                                                  *)

NumExtractIds == 2   \* distinct source entities
NumListings   == 2   \* listing dimensions (subreddit and post type, or topic)

ExtractIds == 1..NumExtractIds

Extractors == {"reddit", "producthunt"}

\* what one request returns: entities that pass the filters, each once; a
\* request that raises contributes nothing, like an empty answer
Answers == {a \in SeqsUpTo(ExtractIds, NumExtractIds) :
               \A i, j \in 1..Len(a) : i # j => a[i] # a[j]}

\* the loop over the search results: Product Hunt skips a product that
\* `any(r.id == post.get('id') for r in records)`, Reddit appends every post
RECURSIVE AddSearchResults(_, _, _)
AddSearchResults(e, recs, results) ==
    IF results = <<>> THEN recs
    ELSE LET id == Head(results)
             skip == e = "producthunt" /\ \E j \in 1..Len(recs) : recs[j] = id
         IN AddSearchResults(e, IF skip THEN recs ELSE Append(recs, id), Tail(results))

\* records.sort(key=lambda x: x.timestamp, reverse=True); an entity's id stands
\* for its timestamp, and list.sort is stable
RECURSIVE SortByTimestamp(_)
SortByTimestamp(recs) ==
    IF recs = <<>> THEN <<>>
    ELSE LET m == CHOOSE i \in 1..Len(recs) :
                      /\ \A j \in 1..Len(recs) : recs[j] <= recs[i]
                      /\ \A j \in 1..(i - 1) : recs[j] < recs[i]
             rest == [j \in 1..(Len(recs) - 1) |-> IF j < m THEN recs[j] ELSE recs[j + 1]]
         IN <<recs[m]>> \o SortByTimestamp(rest)

InitExtract ==
    /\ extractor \in Extractors
    /\ listings \in [1..NumListings -> Answers]
    /\ search \in Answers
    /\ xrecords = <<>>
    /\ qi = 1
    /\ returned = <<>>

InitExtractSpec ==
    InitExtract /\ InitSyncIdle /\ InitLimiterIdle /\ InitRetryIdle /\ InitSessionIdle
        /\ InitPipelineIdle /\ InitCursorIdle /\ InitTrendsIdle /\ InitFlattenIdle
        /\ InitCompareIdle

\* one listing request of the first loop: every record it yields is appended
ExtractListing ==
    /\ qi <= NumListings
    /\ xrecords' = xrecords \o listings[qi]
    /\ qi' = qi + 1
    /\ UNCHANGED <<extractor, listings, search, returned, syncVars, limiterVars,
                   retryVars, sessionVars, pipelineVars, cursorVars, trendsVars,
                   flattenVars, compareVars>>

\* the keyword search of the second loop
ExtractSearch ==
    /\ qi = NumListings + 1
    /\ xrecords' = AddSearchResults(extractor, xrecords, search)
    /\ qi' = qi + 1
    /\ UNCHANGED <<extractor, listings, search, returned, syncVars, limiterVars,
                   retryVars, sessionVars, pipelineVars, cursorVars, trendsVars,
                   flattenVars, compareVars>>

\* sort, truncate to batch_size and return
ExtractReturns ==
    /\ qi = NumListings + 2
    /\ returned' = Take(SortByTimestamp(xrecords), BatchSize)
    /\ qi' = qi + 1
    /\ UNCHANGED <<extractor, listings, search, xrecords, syncVars, limiterVars,
                   retryVars, sessionVars, pipelineVars, cursorVars, trendsVars,
                   flattenVars, compareVars>>

NextExtract == ExtractListing \/ ExtractSearch \/ ExtractReturns

SpecExtract == InitExtractSpec /\ [][NextExtract]_vars

\* C29: the batch an extraction returns holds no two records with the same id
C29_NoDuplicateInBatch ==
    qi > NumListings + 2 =>
        \A i, j \in 1..Len(returned) : i # j => returned[i] # returned[j]

====
